---- MODULE Spec2Model ----
(***************************************************************************)
(* Shard router of RUHI-VIG QNR (src/main.py): the registry of worker      *)
(* databases (WorkerDB), the record-to-worker mappings (DataMapping), the  *)
(* records held by each worker datastore (DataRecord, FileRecord), the     *)
(* write-target selection and the record operations built on them.         *)
(*                                                                         *)
(* Every HTTP handler is one action.  A worker datastore is identified by  *)
(* its db_url: two WorkerDB rows with the same db_url share one datastore. *)
(* Activity logging and notifications are left out (they only append to    *)
(* tables nothing here reads).                                             *)
(***************************************************************************)
EXTENDS Integers, Sequences, FiniteSets, TLC

(***************************************************************************)
(* Bounds of the model.                                                    *)
(***************************************************************************)
MaxWorkers    == 2   \* WorkerDB rows ever created by add_worker
MaxRecords    == 2   \* record ids ever generated by write_record
MaxFiles      == 1   \* file ids ever generated by upload_file
SearchWorkers == 3   \* WorkerDB rows ever created under SpecSearch
SearchRecords == 3   \* record ids ever generated under SpecSearch
MaxPings      == 2   \* passes of anti_sleep_ping told apart by their time
MaxTasks      == 2   \* requests accepted under SpecLoop
AdminWorkers  == 3   \* WorkerDB rows ever created under SpecAdmin
WriteRecords  == 3   \* record ids ever generated under SpecWrite

(***************************************************************************)
(* Program constants.                                                      *)
(***************************************************************************)
SHARD_LIMIT_MB == 950
MiB            == 1048576      \* 1024 * 1024, the factor of get_available_worker

Names       == {"w1", "w2", "w3", "w4"}
Urls        == {"u1", "u2", "u3", "u4"}
Collections == {"default"}
Owner       == "alice"
ClientKeys  == {"k1"}
LimitChoices == {1, SHARD_LIMIT_MB}
FileSizes   == {MiB}
MAX_FILE_MB == 5
QUERY_MAX   == 500
Offsets     == {0, 1}
Queries     == { <<"a">>, <<"x">> }
Limits      == {1, 50}

(***************************************************************************)
(* JSON values.  A payload is a Python dict: a sequence of items in        *)
(* insertion order; text is a sequence of one-character strings.           *)
(***************************************************************************)
JInt(n)  == [t |-> "int",  n |-> n]
JStr(s)  == [t |-> "str",  s |-> s]
JBool(b) == [t |-> "bool", b |-> b]
JNull    == [t |-> "null"]
Item(k, v) == [k |-> k, v |-> v]

Payloads ==
  { << Item(<<"a">>, JInt(1)) >>,
    << Item(<<"b">>, JStr(<<"x", "\"">>)), Item(<<"a">>, JBool(TRUE)) >> }

SearchPayloads == { << Item(<<"a">>, JInt(1)) >> }

Digits == <<"0", "1", "2", "3", "4", "5", "6", "7", "8", "9">>
DigitSet == {Digits[i] : i \in 1..10}
DigitVal(c) == (CHOOSE i \in 1..10 : Digits[i] = c) - 1

RECURSIVE NatText(_)
NatText(n) ==
  IF n < 10 THEN << Digits[n + 1] >>
  ELSE NatText(n \div 10) \o << Digits[(n % 10) + 1] >>

IntText(n) == IF n < 0 THEN <<"-">> \o NatText(-n) ELSE NatText(n)

RECURSIVE Escape(_)
Escape(s) ==
  IF s = <<>> THEN <<>>
  ELSE (IF Head(s) \in {"\"", "\\"} THEN <<"\\", Head(s)>> ELSE <<Head(s)>>)
       \o Escape(Tail(s))

StrText(s) == <<"\"">> \o Escape(s) \o <<"\"">>

ValText(v) ==
  CASE v.t = "int"  -> IntText(v.n)
    [] v.t = "str"  -> StrText(v.s)
    [] v.t = "bool" -> IF v.b THEN <<"t", "r", "u", "e">>
                              ELSE <<"f", "a", "l", "s", "e">>
    [] v.t = "null" -> <<"n", "u", "l", "l">>

RECURSIVE ItemsText(_)
ItemsText(d) ==
  IF d = <<>> THEN <<>>
  ELSE StrText(d[1].k) \o <<":", " ">> \o ValText(d[1].v)
       \o (IF Len(d) > 1 THEN <<",", " ">> ELSE <<>>)
       \o ItemsText(Tail(d))

\* json.dumps with the default separators (", " and ": ") and ensure_ascii
Dumps(d) == <<"{">> \o ItemsText(d) \o <<"}">>

\* len(data_str.encode("utf-8")): the text is ASCII, one byte per character
SizeOf(d) == Len(Dumps(d))

RECURSIVE ReadStr(_, _, _)
\* txt[i] is the first character after the opening quote
ReadStr(txt, i, acc) ==
  IF txt[i] = "\"" THEN [v |-> acc, i |-> i + 1]
  ELSE IF txt[i] = "\\" THEN ReadStr(txt, i + 2, Append(acc, txt[i + 1]))
  ELSE ReadStr(txt, i + 1, Append(acc, txt[i]))

RECURSIVE ReadNat(_, _, _)
ReadNat(txt, i, acc) ==
  IF i <= Len(txt) /\ txt[i] \in DigitSet
  THEN ReadNat(txt, i + 1, acc * 10 + DigitVal(txt[i]))
  ELSE [v |-> acc, i |-> i]

ParseVal(txt, i) ==
  CASE txt[i] = "\"" -> LET r == ReadStr(txt, i + 1, <<>>)
                        IN  [v |-> JStr(r.v), i |-> r.i]
    [] txt[i] = "t"  -> [v |-> JBool(TRUE),  i |-> i + 4]
    [] txt[i] = "f"  -> [v |-> JBool(FALSE), i |-> i + 5]
    [] txt[i] = "n"  -> [v |-> JNull,        i |-> i + 4]
    [] txt[i] = "-"  -> LET r == ReadNat(txt, i + 1, 0)
                        IN  [v |-> JInt(0 - r.v), i |-> r.i]
    [] OTHER         -> LET r == ReadNat(txt, i, 0)
                        IN  [v |-> JInt(r.v), i |-> r.i]

RECURSIVE ParseItems(_, _, _)
\* txt[i] is "}" or the opening quote of the next key
ParseItems(txt, i, acc) ==
  IF txt[i] = "}" THEN acc
  ELSE LET key == ReadStr(txt, i + 1, <<>>)
           val == ParseVal(txt, key.i + 2)
           got == Append(acc, Item(key.v, val.v))
       IN  IF txt[val.i] = "," THEN ParseItems(txt, val.i + 2, got)
           ELSE got

\* json.loads of a text Dumps produced
Loads(txt) == ParseItems(txt, 2, <<>>)

RECURSIVE IsPrefix(_, _)
IsPrefix(p, s) ==
  \/ p = <<>>
  \/ /\ s # <<>>
     /\ Head(p) = Head(s)
     /\ IsPrefix(Tail(p), Tail(s))

\* CAST(data AS TEXT) ILIKE '%q%' for a query without wildcard characters
Contains(s, q) ==
  \E i \in 0..Len(s) : IsPrefix(q, SubSeq(s, i + 1, Len(s)))


(***************************************************************************)
(* State.                                                                  *)
(***************************************************************************)
VARIABLES
  workers,         \* master DB, table worker_dbs: id -> row
  nextWid,         \* number of worker ids generated so far, plus one
  mappings,        \* master DB, table data_mappings: set of rows
  nextRec,         \* number of record ids generated so far, plus one
  store,           \* worker datastores, table data_records: db_url -> rows
  files,           \* worker datastores, table file_records: db_url -> rows
  nextFile,        \* number of file ids generated so far, plus one
  schema,          \* db_urls whose worker tables have been created
  pooled,          \* keys of _worker_sessions
  reachable,       \* db_url -> whether the datastore answers
  shard_limit_mb,  \* master DB, system_config["shard_limit_mb"]
  anti_sleep_enabled, \* master DB, system_config["anti_sleep_enabled"]
  worker_engines,  \* _worker_engines: worker id -> the engine objects
                   \* get_worker_session has made for it and the one it keeps
  tasks,           \* the requests the server has accepted, each with the
                   \* statement its handler is at (SpecLoop)
  resp,            \* the response of the last request
  asked            \* what clients know of their successful writes: the key
                   \* they had in mind, the id they got back, the payload

vars == << workers, nextWid, mappings, nextRec, store, files, nextFile,
           schema, pooled, reachable, shard_limit_mb, anti_sleep_enabled,
           worker_engines, tasks, resp, asked >>


Init ==
  /\ workers = << >>
  /\ nextWid = 1
  /\ mappings = {}
  /\ nextRec = 1
  /\ store = [u \in Urls |-> {}]
  /\ files = [u \in Urls |-> {}]
  /\ nextFile = 1
  /\ schema = {}
  /\ pooled = {}
  /\ reachable = [u \in Urls |-> TRUE]
  /\ shard_limit_mb = SHARD_LIMIT_MB
  /\ anti_sleep_enabled = "true"
  /\ worker_engines = << >>
  /\ tasks = << >>
  /\ resp = [op |-> "none"]
  /\ asked = {}

Max(a, b) == IF a >= b THEN a ELSE b
Min(a, b) == IF a <= b THEN a ELSE b

(***************************************************************************)
(* Engine manager.                                                         *)
(***************************************************************************)
\* get_worker_session caches the session factory before it creates the
\* tables, so a worker id is pooled even when the first connection fails.
PooledAfter(pl, wid) == pl \cup {wid}

\* WorkerBase.metadata.create_all(eng) runs on the first use of a worker id
SchemaAfter(sc, pl, wid, url) ==
  IF wid \notin pl /\ reachable[url] THEN sc \cup {url} ELSE sc

\* _worker_engines after the calls of get_worker_session that took pl to pl2:
\* each worker id that got cached had one engine made, which is kept
EnginesAfter(en, pl, pl2) ==
  [w \in DOMAIN en \cup (pl2 \ pl) |->
     IF w \in pl2 \ pl
     THEN [made |-> (IF w \in DOMAIN en THEN en[w].made ELSE 0) + 1,
           kept |-> (IF w \in DOMAIN en THEN en[w].made ELSE 0) + 1]
     ELSE en[w]]

\* a session context that never raises
SessionOk_any(sc, pl, wid, url) == TRUE

\* worker_session_ctx yields a session whose statements succeed
SessionOk(sc, pl, wid, url) ==
  /\ reachable[url]
  /\ url \in SchemaAfter(sc, pl, wid, url)

(***************************************************************************)
(* Shard router.                                                           *)
(***************************************************************************)
LimitBytes == shard_limit_mb * MiB

\* the query of get_available_worker with size_bytes <= limit
Candidates_inclusive(ws) ==
  { w \in DOMAIN ws : /\ ws[w].is_active
                      /\ ws[w].is_healthy
                      /\ ws[w].size_bytes <= LimitBytes }

\* the query of get_available_worker without its filter on is_active
Candidates_healthy(ws) ==
  { w \in DOMAIN ws : /\ ws[w].is_healthy
                      /\ ws[w].size_bytes < LimitBytes }

\* the query of get_available_worker without its filter on is_healthy
Candidates_advisory(ws) ==
  { w \in DOMAIN ws : /\ ws[w].is_active
                      /\ ws[w].size_bytes < LimitBytes }

\* the rows get_available_worker's query returns
Candidates(ws) ==
  { w \in DOMAIN ws : /\ ws[w].is_active
                      /\ ws[w].is_healthy
                      /\ ws[w].size_bytes < LimitBytes }

\* get_available_worker without its ORDER BY: any row of the query
get_available_worker_unordered(ws) == Candidates(ws)

\* the rows that can come first under ORDER BY size_bytes ASC (the order of
\* rows with equal size_bytes is the database's choice)
get_available_worker(ws) ==
  { w \in Candidates(ws) :
      \A v \in Candidates(ws) : ws[w].size_bytes <= ws[v].size_bytes }

\* update_worker_stats that leaves record_count alone
update_worker_stats_bytes_only(ws, wid, delta_bytes, delta_records) ==
  IF wid \in DOMAIN ws
  THEN [ws EXCEPT ![wid].size_bytes = Max(0, @ + delta_bytes)]
  ELSE ws

update_worker_stats(ws, wid, delta_bytes, delta_records) ==
  IF wid \in DOMAIN ws
  THEN [ws EXCEPT ![wid].size_bytes   = Max(0, @ + delta_bytes),
                  ![wid].record_count = Max(0, @ + delta_records)]
  ELSE ws

\* s.query(DataMapping).filter_by(record_id=...).first(): any matching row
MappingsOf(ms, rid) == { m \in ms : m.record_id = rid }

\* the lookup of a record without its filter on the id
RecordsOf_unfiltered(st, url, rid) == st[url]

RecordsOf(st, url, rid) == { r \in st[url] : r.id = rid }

(***************************************************************************)
(* Worker administration.                                                  *)
(***************************************************************************)
\* last_ping: 0 for NULL, else the time of the ping that set it
NewWorker(name, url) ==
  [name |-> name, db_url |-> url, is_active |-> TRUE, is_healthy |-> TRUE,
   size_bytes |-> 0, record_count |-> 0, last_ping |-> 0]

Extend(f, k, v) == [x \in DOMAIN f \cup {k} |-> IF x = k THEN v ELSE f[x]]
Remove(f, k) == [x \in DOMAIN f \ {k} |-> f[x]]

\* a name check that finds no row
NameTaken_never(ws, name) == FALSE

\* s.query(WorkerDB).filter_by(name=body.name).first()
NameTaken(ws, name) == \E w \in DOMAIN ws : ws[w].name = name

\* dropped: the datastore stops answering between the test connection and
\* the creation of the worker tables
add_worker(name, url, dropped) ==
  /\ UNCHANGED << worker_engines, tasks >>
  /\ UNCHANGED << mappings, nextRec, store, files, nextFile, pooled,
                  shard_limit_mb, anti_sleep_enabled, asked >>
  /\ IF ~reachable[url]
     THEN /\ resp' = [op |-> "add_worker", status |-> 400]
          /\ UNCHANGED << workers, nextWid, schema, reachable >>
     ELSE IF NameTaken(workers, name)
     THEN /\ resp' = [op |-> "add_worker", status |-> 409]
          /\ UNCHANGED << workers, nextWid, schema, reachable >>
     ELSE /\ workers' = Extend(workers, nextWid, NewWorker(name, url))
          /\ nextWid' = nextWid + 1
          /\ IF dropped
             THEN /\ reachable' = [reachable EXCEPT ![url] = FALSE]
                  /\ UNCHANGED schema
                  /\ resp' = [op |-> "add_worker", status |-> 500]
             ELSE /\ UNCHANGED reachable
                  /\ schema' = schema \cup {url}
                  /\ resp' = [op |-> "add_worker", status |-> 200,
                              name |-> name]

\* toggle_worker that also resets the usage counters of the row
toggle_worker_reset(wid, want) ==
  /\ UNCHANGED << worker_engines, tasks >>
  /\ UNCHANGED << nextWid, mappings, nextRec, store, files, nextFile, schema,
                  pooled, reachable, shard_limit_mb, anti_sleep_enabled, asked >>
  /\ IF wid \notin DOMAIN workers
     THEN /\ resp' = [op |-> "toggle_worker", status |-> 404]
          /\ UNCHANGED workers
     ELSE /\ workers' = [workers EXCEPT
                           ![wid].is_active =
                             IF want = "flip" THEN ~@ ELSE want = "on",
                           ![wid].size_bytes = 0,
                           ![wid].record_count = 0]
          /\ resp' = [op |-> "toggle_worker", status |-> 200, id |-> wid]

\* want: body["is_active"] when given, "flip" when the body has no such key
toggle_worker(wid, want) ==
  /\ UNCHANGED << worker_engines, tasks >>
  /\ UNCHANGED << nextWid, mappings, nextRec, store, files, nextFile, schema,
                  pooled, reachable, shard_limit_mb, anti_sleep_enabled, asked >>
  /\ IF wid \notin DOMAIN workers
     THEN /\ resp' = [op |-> "toggle_worker", status |-> 404]
          /\ UNCHANGED workers
     ELSE /\ workers' = [workers EXCEPT ![wid].is_active =
                           IF want = "flip" THEN ~@ ELSE want = "on"]
          /\ resp' = [op |-> "toggle_worker", status |-> 200, id |-> wid]

remove_worker(wid) ==
  /\ UNCHANGED << worker_engines, tasks >>
  /\ UNCHANGED << nextWid, mappings, nextRec, store, files, nextFile, schema,
                  pooled, reachable, shard_limit_mb, anti_sleep_enabled, asked >>
  /\ IF wid \notin DOMAIN workers
     THEN /\ resp' = [op |-> "remove_worker", status |-> 404]
          /\ UNCHANGED workers
     ELSE /\ workers' = Remove(workers, wid)
          /\ resp' = [op |-> "remove_worker", status |-> 200, id |-> wid]

(***************************************************************************)
(* Record operations.                                                      *)
(***************************************************************************)
NewRecord(rid, coll, data, size) ==
  [id |-> rid, collection |-> coll, data |-> Dumps(data), owner_id |-> Owner,
   size_bytes |-> size, tags |-> << >>]

\* a mapping row that takes a constant for its record_id
NewMapping_fixed_id(rid, wid, coll) ==
  [record_id |-> 1, worker_id |-> wid, collection |-> coll, user_id |-> Owner]

NewMapping(rid, wid, coll) ==
  [record_id |-> rid, worker_id |-> wid, collection |-> coll,
   user_id |-> Owner]

\* key: the key the client has in mind; DataWriteRequest has no field for
\*      it and the handler never sees it
\* fault: the master-DB statement that fails during the request, if any
\* resp.worker_id names the row of worker_dbs the response's "worker" is
\* the name of (worker.id, which the handler holds but does not return)
write_record(key, coll, data, fault) ==
  LET avail == IF fault = "select" THEN {} ELSE get_available_worker(workers)
  IN
  /\ UNCHANGED tasks
  /\ UNCHANGED << nextWid, files, nextFile, reachable, shard_limit_mb, anti_sleep_enabled >>
  /\ IF avail = {}
     THEN /\ resp' = [op |-> "write_record", status |-> 503]
          /\ UNCHANGED << workers, mappings, nextRec, store, schema, pooled,
                          asked >>
     ELSE \E w \in avail :
       LET url  == workers[w].db_url
           rid  == nextRec
           size == SizeOf(data)
       IN
       /\ pooled' = PooledAfter(pooled, w)
       /\ schema' = SchemaAfter(schema, pooled, w, url)
       /\ IF ~SessionOk(schema, pooled, w, url)
          THEN /\ resp' = [op |-> "write_record", status |-> 500]
               /\ UNCHANGED << workers, mappings, nextRec, store, asked >>
          ELSE /\ nextRec' = nextRec + 1
               /\ store' = [store EXCEPT
                              ![url] = @ \cup {NewRecord(rid, coll, data, size)}]
               /\ IF fault = "mapping"
                  THEN /\ resp' = [op |-> "write_record", status |-> 500]
                       /\ UNCHANGED << workers, mappings, asked >>
                  ELSE /\ mappings' = mappings \cup {NewMapping(rid, w, coll)}
                       /\ workers' = IF fault = "stats" THEN workers
                                     ELSE update_worker_stats(workers, w, size, 1)
                       /\ resp' = [op |-> "write_record", status |-> 200,
                                   id |-> rid, worker |-> workers[w].name,
                                   worker_id |-> w, collection |-> coll,
                                   size_bytes |-> size]
                       /\ asked' = asked \cup {[key |-> key, id |-> rid,
                                                 data |-> data]}
  /\ worker_engines' = EnginesAfter(worker_engines, pooled, pooled')

get_record(rid) ==
  /\ UNCHANGED tasks
  /\ UNCHANGED << workers, nextWid, mappings, nextRec, store, files, nextFile,
                  reachable, shard_limit_mb, anti_sleep_enabled, asked >>
  /\ IF MappingsOf(mappings, rid) = {}
     THEN /\ resp' = [op |-> "get_record", status |-> 404, id |-> rid,
                      detail |-> "Record not found"]
          /\ UNCHANGED << schema, pooled >>
     ELSE \E m \in MappingsOf(mappings, rid) :
       IF m.worker_id \notin DOMAIN workers
       THEN /\ resp' = [op |-> "get_record", status |-> 404, id |-> rid,
                        detail |-> "Worker not found"]
            /\ UNCHANGED << schema, pooled >>
       ELSE LET w   == m.worker_id
                url == workers[w].db_url
            IN
            /\ pooled' = PooledAfter(pooled, w)
            /\ schema' = SchemaAfter(schema, pooled, w, url)
            /\ IF ~SessionOk(schema, pooled, w, url)
               THEN resp' = [op |-> "get_record", status |-> 500, id |-> rid]
               ELSE IF RecordsOf(store, url, rid) = {}
               THEN resp' = [op |-> "get_record", status |-> 404, id |-> rid,
                             detail |-> "Record not found in shard"]
               ELSE \E r \in RecordsOf(store, url, rid) :
                      resp' = [op |-> "get_record", status |-> 200,
                               id |-> r.id, collection |-> r.collection,
                               data |-> Loads(r.data), tags |-> r.tags,
                               size_bytes |-> r.size_bytes,
                               worker |-> workers[w].name]
  /\ worker_engines' = EnginesAfter(worker_engines, pooled, pooled')

\* fault: "stats" (update_worker_stats fails), "unmap" (the deletion of the
\*        mapping row fails) or "none"
delete_record(rid, fault) ==
  /\ UNCHANGED tasks
  /\ UNCHANGED << nextWid, nextRec, files, nextFile, reachable,
                  shard_limit_mb, anti_sleep_enabled, asked >>
  /\ IF MappingsOf(mappings, rid) = {}
     THEN /\ resp' = [op |-> "delete_record", status |-> 404, id |-> rid]
          /\ UNCHANGED << workers, mappings, store, schema, pooled >>
     ELSE \E m \in MappingsOf(mappings, rid) :
       LET w    == m.worker_id
           have == w \in DOMAIN workers
           url  == workers[w].db_url
           ok   == have /\ SessionOk(schema, pooled, w, url)
           recs == IF ok THEN RecordsOf(store, url, rid) ELSE {}
       IN
       /\ pooled' = IF have THEN PooledAfter(pooled, w) ELSE pooled
       /\ schema' = IF have THEN SchemaAfter(schema, pooled, w, url) ELSE schema
       /\ IF recs = {}
          \* no worker row, a failing session, or no row in the shard (size_b
          \* is then unbound): the exception is swallowed
          THEN UNCHANGED << workers, store >>
          ELSE \E r \in recs :
                 /\ store' = [store EXCEPT ![url] = @ \ {r}]
                 /\ workers' = IF fault = "stats" THEN workers
                               ELSE update_worker_stats(workers, w,
                                                        0 - r.size_bytes, -1)
       /\ IF fault = "unmap"
          THEN /\ resp' = [op |-> "delete_record", status |-> 500, id |-> rid]
               /\ UNCHANGED mappings
          ELSE /\ \E mp \in MappingsOf(mappings, rid) :
                    mappings' = mappings \ {mp}
               /\ resp' = [op |-> "delete_record", status |-> 200, id |-> rid]
  /\ worker_engines' = EnginesAfter(worker_engines, pooled, pooled')

RECURSIVE TotalBytes(_)
\* total_bytes of bulk_write: the sum of the sizes of the serialized items
TotalBytes(items) ==
  IF items = << >> THEN 0
  ELSE SizeOf(Head(items)) + TotalBytes(Tail(items))

\* bulk_write: one worker for the whole request, the records in one worker
\* transaction, the mappings in one master transaction, one counter update
\* (the bound of 1000 records per request is not reached here)
bulk_write(coll, items) ==
  LET n == Len(items) IN
  /\ UNCHANGED tasks
  /\ UNCHANGED << nextWid, files, nextFile, reachable, shard_limit_mb,
                  anti_sleep_enabled, asked >>
  /\ IF items = << >>
     THEN /\ resp' = [op |-> "bulk_write", status |-> 400]
          /\ UNCHANGED << workers, mappings, nextRec, store, schema, pooled >>
     ELSE IF get_available_worker(workers) = {}
     THEN /\ resp' = [op |-> "bulk_write", status |-> 503]
          /\ UNCHANGED << workers, mappings, nextRec, store, schema, pooled >>
     ELSE \E w \in get_available_worker(workers) :
       LET url == workers[w].db_url IN
       /\ pooled' = PooledAfter(pooled, w)
       /\ schema' = SchemaAfter(schema, pooled, w, url)
       /\ IF ~SessionOk(schema, pooled, w, url)
          THEN /\ resp' = [op |-> "bulk_write", status |-> 500]
               /\ UNCHANGED << workers, mappings, nextRec, store >>
          ELSE /\ nextRec' = nextRec + n
               /\ store' = [store EXCEPT
                              ![url] = @ \cup
                                { NewRecord(nextRec + i - 1, coll, items[i],
                                            SizeOf(items[i])) : i \in 1..n }]
               /\ mappings' = mappings \cup
                                { NewMapping(nextRec + i - 1, w, coll) :
                                  i \in 1..n }
               /\ workers' = update_worker_stats(workers, w,
                                                 TotalBytes(items), n)
               /\ resp' = [op |-> "bulk_write", status |-> 200,
                           written |-> n, worker |-> workers[w].name,
                           worker_id |-> w,
                           total_bytes |-> TotalBytes(items)]
  /\ worker_engines' = EnginesAfter(worker_engines, pooled, pooled')

\* one round of the loop of bulk_delete
\* st: the master DB and the worker datastores as the loop has left them
BulkDeleteOne(st, rid) ==
  LET ms == MappingsOf(st.mappings, rid) IN
  IF ms = {} THEN st ELSE
  LET m    == CHOOSE x \in ms : TRUE
      w    == m.worker_id
      have == w \in DOMAIN st.workers
      url  == st.workers[w].db_url
      ok   == have /\ SessionOk(st.schema, st.pooled, w, url)
      recs == IF ok THEN RecordsOf(st.store, url, rid) ELSE {}
      r    == CHOOSE x \in recs : TRUE
  IN
  [workers  |-> IF ~ok THEN st.workers
                \* size_b starts at 0: the counters are updated even when the
                \* shard has no such row
                ELSE IF recs = {}
                THEN update_worker_stats(st.workers, w, 0, -1)
                ELSE update_worker_stats(st.workers, w, 0 - r.size_bytes, -1),
   store    |-> IF recs = {} THEN st.store
                ELSE [st.store EXCEPT ![url] = @ \ {r}],
   mappings |-> st.mappings \ {m},
   pooled   |-> IF have THEN PooledAfter(st.pooled, w) ELSE st.pooled,
   schema   |-> IF have THEN SchemaAfter(st.schema, st.pooled, w, url)
                ELSE st.schema,
   deleted  |-> st.deleted + 1]

RECURSIVE BulkDeleteAll(_, _)
BulkDeleteAll(st, ids) ==
  IF ids = << >> THEN st
  ELSE BulkDeleteAll(BulkDeleteOne(st, Head(ids)), Tail(ids))

bulk_delete(ids) ==
  LET st == BulkDeleteAll([workers |-> workers, mappings |-> mappings,
                           store |-> store, pooled |-> pooled,
                           schema |-> schema, deleted |-> 0], ids)
  IN
  /\ UNCHANGED tasks
  /\ UNCHANGED << nextWid, nextRec, files, nextFile, reachable,
                  shard_limit_mb, anti_sleep_enabled, asked >>
  /\ workers' = st.workers
  /\ mappings' = st.mappings
  /\ store' = st.store
  /\ pooled' = st.pooled
  /\ schema' = st.schema
  /\ resp' = [op |-> "bulk_delete", status |-> 200, deleted |-> st.deleted,
              ids |-> ids]
  /\ worker_engines' = EnginesAfter(worker_engines, pooled, pooled')

\* the rows of a request's record_ids the loop of rebalance has gone through
\* st: the master DB and the worker datastores as the loop has left them
RebalanceOne(st, rid, tw, turl) ==
  LET ms == MappingsOf(st.mappings, rid) IN
  IF ms = {} THEN st ELSE
  LET m == CHOOSE x \in ms : TRUE IN
  IF m.worker_id = tw \/ m.worker_id \notin DOMAIN st.workers THEN st ELSE
  LET src   == m.worker_id
      surl  == st.workers[src].db_url
      pl1   == PooledAfter(st.pooled, src)
      sc1   == SchemaAfter(st.schema, st.pooled, src, surl)
      recs  == RecordsOf(st.store, surl, rid)
  IN
  IF ~SessionOk(st.schema, st.pooled, src, surl) \/ recs = {}
  THEN [st EXCEPT !.pooled = pl1, !.schema = sc1]
  ELSE
  LET r     == CHOOSE x \in recs : TRUE
      \* the deletion from the source is committed before the target is touched
      store1 == [st.store EXCEPT ![surl] = @ \ {r}]
      pl2   == PooledAfter(pl1, tw)
      sc2   == SchemaAfter(sc1, pl1, tw, turl)
      copy  == [id |-> rid, collection |-> r.collection,
                data |-> Dumps(Loads(r.data)), owner_id |-> r.owner_id,
                size_bytes |-> r.size_bytes, tags |-> r.tags]
  IN
  IF ~SessionOk(sc1, pl1, tw, turl) \/ RecordsOf(store1, turl, rid) # {}
  \* the insert into the target raises: the loop goes on to the next id
  THEN [st EXCEPT !.store = store1, !.pooled = pl2, !.schema = sc2]
  ELSE [workers  |-> update_worker_stats(
                       update_worker_stats(st.workers, src,
                                           0 - r.size_bytes, -1),
                       tw, r.size_bytes, 1),
        mappings |-> (st.mappings \ {m}) \cup {[m EXCEPT !.worker_id = tw]},
        store    |-> [store1 EXCEPT ![turl] = @ \cup {copy}],
        pooled   |-> pl2,
        schema   |-> sc2,
        moved    |-> st.moved + 1]

RECURSIVE RebalanceAll(_, _, _, _)
RebalanceAll(st, ids, tw, turl) ==
  IF ids = << >> THEN st
  ELSE RebalanceAll(RebalanceOne(st, Head(ids), tw, turl), Tail(ids), tw, turl)

rebalance(ids, tw) ==
  /\ UNCHANGED tasks
  /\ UNCHANGED << nextWid, nextRec, files, nextFile, reachable,
                  shard_limit_mb, anti_sleep_enabled, asked >>
  /\ IF tw \notin DOMAIN workers \/ ~workers[tw].is_active
     THEN /\ resp' = [op |-> "rebalance", status |-> 404]
          /\ UNCHANGED << workers, mappings, store, schema, pooled >>
     ELSE LET st == RebalanceAll(
                      [workers |-> workers, mappings |-> mappings,
                       store |-> store, pooled |-> pooled, schema |-> schema,
                       moved |-> 0],
                      ids, tw, workers[tw].db_url)
          IN /\ workers' = st.workers
             /\ mappings' = st.mappings
             /\ store' = st.store
             /\ pooled' = st.pooled
             /\ schema' = st.schema
             /\ resp' = [op |-> "rebalance", status |-> 200,
                         moved |-> st.moved, target |-> workers[tw].name]
  /\ worker_engines' = EnginesAfter(worker_engines, pooled, pooled')

(***************************************************************************)
(* Search.                                                                 *)
(***************************************************************************)
\* the orders in which a query without ORDER BY can return the rows of S
Orderings(S) ==
  { s \in [1..Cardinality(S) -> S] : \A i, j \in DOMAIN s : i # j => s[i] # s[j] }

\* what q.limit(limit).all() can return when the rows matching are S
Pages(S, limit) ==
  UNION { Orderings(T) : T \in { X \in SUBSET S :
                                   Cardinality(X) = Min(limit, Cardinality(S)) } }

\* coll = "" stands for a request without a collection
Matches(url, coll, query) ==
  { r \in store[url] : /\ coll = "" \/ r.collection = coll
                       /\ Contains(r.data, query) }

Hit(r, w) ==
  [id |-> r.id, collection |-> r.collection, data |-> Loads(r.data),
   tags |-> r.tags, worker_id |-> w, worker_name |-> workers[w].name]

RECURSIVE Scatter_abort(_, _, _, _, _)
\* the loop of smart_search without the try around each worker: the first
\* worker that raises ends it
Scatter_abort(acc, order, coll, query, limit) ==
  IF order = << >> THEN {acc}
  ELSE
  LET w   == Head(order)
      url == workers[w].db_url
      nxt == [acc EXCEPT
                !.pooled = PooledAfter(acc.pooled, w),
                !.schema = SchemaAfter(acc.schema, acc.pooled, w, url)]
  IN
  IF ~SessionOk(acc.schema, acc.pooled, w, url)
  THEN {nxt}
  ELSE UNION {
         Scatter_abort([nxt EXCEPT
                          !.results = @ \o [i \in DOMAIN pg |-> Hit(pg[i], w)],
                          !.shards_searched = @ + 1],
                       Tail(order), coll, query, limit)
         : pg \in Pages(Matches(url, coll, query), limit) }

RECURSIVE Scatter(_, _, _, _, _)
\* the outcomes of the loop of smart_search over the worker rows in order
Scatter(acc, order, coll, query, limit) ==
  IF order = << >> THEN {acc}
  ELSE
  LET w   == Head(order)
      url == workers[w].db_url
      nxt == [acc EXCEPT
                !.pooled = PooledAfter(acc.pooled, w),
                !.schema = SchemaAfter(acc.schema, acc.pooled, w, url)]
  IN
  IF ~SessionOk(acc.schema, acc.pooled, w, url)
  \* the worker raises: it is skipped
  THEN Scatter(nxt, Tail(order), coll, query, limit)
  ELSE UNION {
         Scatter([nxt EXCEPT
                    !.results = @ \o [i \in DOMAIN pg |-> Hit(pg[i], w)],
                    !.shards_searched = @ + 1],
                 Tail(order), coll, query, limit)
         : pg \in Pages(Matches(url, coll, query), limit) }

\* the rows of worker_dbs without the filter on is_active
ActiveWorkers_all == DOMAIN workers

ActiveWorkers == { w \in DOMAIN workers : workers[w].is_active }

\* resp.request: the parameters of the request the response answers
smart_search(query, coll, limit) ==
  /\ UNCHANGED tasks
  /\ UNCHANGED << workers, nextWid, mappings, nextRec, store, files, nextFile,
                  reachable, shard_limit_mb, anti_sleep_enabled, asked >>
  /\ \E order \in Orderings(ActiveWorkers) :
     \E out \in Scatter([pooled |-> pooled, schema |-> schema,
                         results |-> << >>, shards_searched |-> 0],
                        order, coll, query, limit) :
       /\ pooled' = out.pooled
       /\ schema' = out.schema
       /\ resp' = [op |-> "smart_search", status |-> 200,
                   results |-> SubSeq(out.results, 1,
                                      Min(limit, Len(out.results))),
                   total |-> Len(out.results),
                   shards_searched |-> out.shards_searched,
                   request |-> [query |-> query, limit |-> limit]]
  /\ worker_engines' = EnginesAfter(worker_engines, pooled, pooled')

(***************************************************************************)
(* Listing.                                                                *)
(***************************************************************************)
RECURSIVE NewestFirst(_)
\* ORDER BY created_at DESC: the ids are given in the order of creation
NewestFirst(S) ==
  IF S = {} THEN << >>
  ELSE LET x == CHOOSE y \in S : \A z \in S : z.id <= y.id IN
       << x >> \o NewestFirst(S \ {x})

\* the rows of one worker: filter, order, offset, limit
PageOf(url, coll, limit, offset) ==
  LET rows == NewestFirst({ r \in store[url] :
                             coll = "" \/ r.collection = coll })
  IN SubSeq(rows, offset + 1, Min(Len(rows), offset + limit))

QueryHit(r, w) ==
  [id |-> r.id, collection |-> r.collection, data |-> Loads(r.data),
   owner_id |-> r.owner_id, tags |-> r.tags, size_bytes |-> r.size_bytes,
   worker_id |-> w, worker_name |-> workers[w].name]

RECURSIVE Gather(_, _, _, _, _)
\* the loop of query_records over the worker rows in order
Gather(acc, order, coll, limit, offset) ==
  IF order = << >> THEN acc
  ELSE
  LET w   == Head(order)
      url == workers[w].db_url
      nxt == [acc EXCEPT
                !.pooled = PooledAfter(acc.pooled, w),
                !.schema = SchemaAfter(acc.schema, acc.pooled, w, url)]
      pg  == PageOf(url, coll, limit, offset)
  IN
  IF ~SessionOk(acc.schema, acc.pooled, w, url)
  THEN Gather(nxt, Tail(order), coll, limit, offset)
  ELSE Gather([nxt EXCEPT
                 !.records = @ \o [i \in DOMAIN pg |-> QueryHit(pg[i], w)]],
              Tail(order), coll, limit, offset)

\* wid = 0 stands for a request without worker_id
query_records(wid, coll, limit, offset) ==
  LET lim == Min(limit, QUERY_MAX)
      sel == IF wid = 0 THEN ActiveWorkers
             ELSE { w \in ActiveWorkers : w = wid }
  IN
  /\ UNCHANGED tasks
  /\ UNCHANGED << workers, nextWid, mappings, nextRec, store, files, nextFile,
                  reachable, shard_limit_mb, anti_sleep_enabled, asked >>
  /\ \E order \in Orderings(sel) :
       LET out == Gather([pooled |-> pooled, schema |-> schema,
                          records |-> << >>], order, coll, lim, offset)
       IN
       /\ pooled' = out.pooled
       /\ schema' = out.schema
       /\ resp' = [op |-> "query_records", status |-> 200,
                   records |-> SubSeq(out.records, 1,
                                      Min(lim, Len(out.records))),
                   count |-> Len(out.records),
                   request |-> [worker_id |-> wid, limit |-> limit,
                                offset |-> offset]]
  /\ worker_engines' = EnginesAfter(worker_engines, pooled, pooled')

(***************************************************************************)
(* File storage.                                                           *)
(***************************************************************************)
upload_file(size) ==
  /\ UNCHANGED tasks
  /\ UNCHANGED << nextWid, mappings, nextRec, store, reachable,
                  shard_limit_mb, anti_sleep_enabled, asked >>
  /\ IF size > MAX_FILE_MB * MiB
     THEN /\ resp' = [op |-> "upload_file", status |-> 413]
          /\ UNCHANGED << workers, files, nextFile, schema, pooled >>
     ELSE IF get_available_worker(workers) = {}
     THEN /\ resp' = [op |-> "upload_file", status |-> 503]
          /\ UNCHANGED << workers, files, nextFile, schema, pooled >>
     ELSE \E w \in get_available_worker(workers) :
       LET url == workers[w].db_url IN
       /\ pooled' = PooledAfter(pooled, w)
       /\ schema' = SchemaAfter(schema, pooled, w, url)
       /\ IF ~SessionOk(schema, pooled, w, url)
          THEN /\ resp' = [op |-> "upload_file", status |-> 500]
               /\ UNCHANGED << workers, files, nextFile >>
          ELSE /\ nextFile' = nextFile + 1
               /\ files' = [files EXCEPT
                              ![url] = @ \cup {[id |-> nextFile,
                                                size_bytes |-> size]}]
               /\ workers' = update_worker_stats(workers, w, size, 0)
               /\ resp' = [op |-> "upload_file", status |-> 200,
                           id |-> nextFile, worker |-> workers[w].name,
                           worker_id |-> w, size_bytes |-> size]
  /\ worker_engines' = EnginesAfter(worker_engines, pooled, pooled')

(***************************************************************************)
(* Anti-sleep engine: one pass over the active workers.                    *)
(***************************************************************************)
\* a pass that does not record its time
anti_sleep_ping_stale(now) ==
  /\ UNCHANGED << worker_engines, tasks >>
  /\ anti_sleep_enabled = "true"
  /\ workers' = [w \in DOMAIN workers |->
                   IF workers[w].is_active
                   THEN [workers[w] EXCEPT
                           !.is_healthy = reachable[workers[w].db_url]]
                   ELSE workers[w]]
  /\ UNCHANGED << nextWid, mappings, nextRec, store, files, nextFile, schema,
                  pooled, reachable, shard_limit_mb, anti_sleep_enabled, resp,
                  asked >>

\* a pass over every row of worker_dbs, without the filter on is_active
anti_sleep_ping_all(now) ==
  /\ UNCHANGED << worker_engines, tasks >>
  /\ anti_sleep_enabled = "true"
  /\ workers' = [w \in DOMAIN workers |->
                   IF reachable[workers[w].db_url]
                   THEN [workers[w] EXCEPT !.is_healthy = TRUE,
                                           !.last_ping = now]
                   ELSE [workers[w] EXCEPT !.is_healthy = FALSE]]
  /\ UNCHANGED << nextWid, mappings, nextRec, store, files, nextFile, schema,
                  pooled, reachable, shard_limit_mb, anti_sleep_enabled, resp,
                  asked >>

\* a pass over the rows that are active and marked healthy only
anti_sleep_ping_healthy_only(now) ==
  /\ UNCHANGED << worker_engines, tasks >>
  /\ anti_sleep_enabled = "true"
  /\ workers' = [w \in DOMAIN workers |->
                   IF ~(workers[w].is_active /\ workers[w].is_healthy)
                   THEN workers[w]
                   ELSE IF reachable[workers[w].db_url]
                   THEN [workers[w] EXCEPT !.is_healthy = TRUE,
                                           !.last_ping = now]
                   ELSE [workers[w] EXCEPT !.is_healthy = FALSE]]
  /\ UNCHANGED << nextWid, mappings, nextRec, store, files, nextFile, schema,
                  pooled, reachable, shard_limit_mb, anti_sleep_enabled, resp,
                  asked >>

\* a pass, in the order of the ids, that ends at the first probe that fails
anti_sleep_ping_abort(now) ==
  /\ UNCHANGED << worker_engines, tasks >>
  /\ anti_sleep_enabled = "true"
  /\ workers' = [w \in DOMAIN workers |->
                   IF ~workers[w].is_active THEN workers[w]
                   ELSE IF \E v \in DOMAIN workers :
                             /\ v < w
                             /\ workers[v].is_active
                             /\ ~reachable[workers[v].db_url]
                   THEN workers[w]
                   ELSE IF reachable[workers[w].db_url]
                   THEN [workers[w] EXCEPT !.is_healthy = TRUE,
                                           !.last_ping = now]
                   ELSE [workers[w] EXCEPT !.is_healthy = FALSE]]
  /\ UNCHANGED << nextWid, mappings, nextRec, store, files, nextFile, schema,
                  pooled, reachable, shard_limit_mb, anti_sleep_enabled, resp,
                  asked >>

\* now: datetime.utcnow() during the pass
anti_sleep_ping(now) ==
  /\ UNCHANGED << worker_engines, tasks >>
  /\ anti_sleep_enabled = "true"
  /\ workers' = [w \in DOMAIN workers |->
                   IF ~workers[w].is_active THEN workers[w]
                   ELSE IF reachable[workers[w].db_url]
                   THEN [workers[w] EXCEPT !.is_healthy = TRUE,
                                           !.last_ping = now]
                   ELSE [workers[w] EXCEPT !.is_healthy = FALSE]]
  /\ UNCHANGED << nextWid, mappings, nextRec, store, files, nextFile, schema,
                  pooled, reachable, shard_limit_mb, anti_sleep_enabled, resp,
                  asked >>

(***************************************************************************)
(* Environment and configuration.                                          *)
(***************************************************************************)
\* a worker datastore goes down or comes back
SetReachable(url, up) ==
  /\ UNCHANGED << worker_engines, tasks >>
  /\ reachable[url] # up
  /\ \E w \in DOMAIN workers : workers[w].db_url = url
  /\ reachable' = [reachable EXCEPT ![url] = up]
  /\ UNCHANGED << workers, nextWid, mappings, nextRec, store, files, nextFile,
                  schema, pooled, shard_limit_mb, anti_sleep_enabled, resp,
                  asked >>

\* update_config with body.configs = {"shard_limit_mb": str(mb)}
set_shard_limit(mb) ==
  /\ UNCHANGED << worker_engines, tasks >>
  /\ shard_limit_mb' = mb
  /\ resp' = [op |-> "update_config", status |-> 200]
  /\ UNCHANGED << workers, nextWid, mappings, nextRec, store, files, nextFile,
                  schema, pooled, reachable, anti_sleep_enabled, asked >>

\* update_config with body.configs = {"anti_sleep_enabled": value}
set_anti_sleep(value) ==
  /\ UNCHANGED << worker_engines, tasks >>
  /\ anti_sleep_enabled' = value
  /\ resp' = [op |-> "update_config", status |-> 200]
  /\ UNCHANGED << workers, nextWid, mappings, nextRec, store, files, nextFile,
                  schema, pooled, reachable, shard_limit_mb, asked >>

(***************************************************************************)
(* Requests in progress.  The handlers are coroutines without any await,   *)
(* run by the one event loop of the server: a handler that has begun runs  *)
(* to its end before another begins.  anti_sleep_ping runs on a thread of  *)
(* its own.  Below, a handler advances one statement at a time.            *)
(***************************************************************************)
NewTask(kind, data, rid, tw, waited) ==
  [kind |-> kind, pc |-> "queued", data |-> data, rid |-> rid, tw |-> tw,
   wid |-> 0, after |-> "", made |-> 0, got |-> 0,
   sw |-> 0, db |-> 0, dr |-> 0, after2 |-> "", rd |-> << >>,
   src |-> 0, rec |-> << >>, moved |-> 0, status |-> 0, waited |-> waited]

\* the variables no handler below assigns
fixedVars == << nextWid, files, nextFile, reachable, shard_limit_mb,
                anti_sleep_enabled >>

\* the event loop with handlers that run on threads of their own
LoopFree_threads == TRUE

\* the event loop takes the next request when no handler is running
LoopFree == \A t \in DOMAIN tasks : tasks[t].pc \in {"queued", "done"}

\* no handler is between its first and its last statement
Quiescent == \A t \in DOMAIN tasks : tasks[t].pc \in {"queued", "done"}

\* the statements of a worker session succeed
Answers(url) == reachable[url] /\ url \in schema

\* where a handler continues when a worker statement raises
OnWorkerError(kind) ==
  CASE kind = "write"     -> "raise"
    [] kind = "delete"    -> "unmap"
    [] kind = "rebalance" -> "respond"

\* data: body.data of a write; rid: record_id of a delete or a rebalance;
\* tw: target_worker_id of a rebalance
Arrive(kind, data, rid, tw) ==
  /\ tasks' = Append(tasks, NewTask(kind, data, rid, tw, ~Quiescent))
  /\ UNCHANGED << fixedVars, workers, mappings, nextRec, store, schema,
                  pooled, worker_engines, resp, asked >>

write_begin(t) ==
  /\ tasks[t].kind = "write" /\ tasks[t].pc = "queued"
  /\ LoopFree
  /\ UNCHANGED << fixedVars, workers, mappings, store, schema, pooled,
                  worker_engines, asked >>
  /\ IF get_available_worker(workers) = {}
     THEN /\ tasks' = [tasks EXCEPT ![t].pc = "done", ![t].status = 503]
          /\ resp' = [op |-> "write_record", status |-> 503]
          /\ UNCHANGED nextRec
     ELSE \E w \in get_available_worker(workers) :
            /\ tasks' = [tasks EXCEPT ![t].pc = "check", ![t].wid = w,
                                      ![t].after = "put", ![t].rid = nextRec]
            /\ nextRec' = nextRec + 1
            /\ UNCHANGED resp

\* get_worker_session: if worker_id not in _worker_sessions
session_check(t) ==
  /\ tasks[t].pc = "check"
  /\ tasks' = [tasks EXCEPT ![t].pc = IF tasks[t].wid \in pooled
                                      THEN "return" ELSE "make"]
  /\ UNCHANGED << fixedVars, workers, mappings, nextRec, store, schema,
                  pooled, worker_engines, resp, asked >>

\* get_worker_session: eng = _make_engine(db_url)
session_make(t) ==
  /\ tasks[t].pc = "make"
  /\ LET w == tasks[t].wid
         n == IF w \in DOMAIN worker_engines THEN worker_engines[w].made
              ELSE 0
         k == IF w \in DOMAIN worker_engines THEN worker_engines[w].kept
              ELSE 0
     IN /\ worker_engines' =
             Extend(worker_engines, w, [made |-> n + 1, kept |-> k])
        /\ tasks' = [tasks EXCEPT ![t].pc = "insert", ![t].made = n + 1]
  /\ UNCHANGED << fixedVars, workers, mappings, nextRec, store, schema,
                  pooled, resp, asked >>

\* get_worker_session: _worker_engines[worker_id] = eng and
\* _worker_sessions[worker_id] = sessionmaker(bind=eng)
session_insert(t) ==
  /\ tasks[t].pc = "insert"
  /\ worker_engines' =
       [worker_engines EXCEPT ![tasks[t].wid].kept = tasks[t].made]
  /\ pooled' = PooledAfter(pooled, tasks[t].wid)
  /\ tasks' = [tasks EXCEPT ![t].pc = "create_all"]
  /\ UNCHANGED << fixedVars, workers, mappings, nextRec, store, schema,
                  resp, asked >>

\* get_worker_session: WorkerBase.metadata.create_all(eng)
session_create_all(t) ==
  /\ tasks[t].pc = "create_all"
  /\ LET url == workers[tasks[t].wid].db_url
     IN IF reachable[url]
        THEN /\ schema' = schema \cup {url}
             /\ tasks' = [tasks EXCEPT ![t].pc = "return"]
        ELSE /\ UNCHANGED schema
             /\ tasks' = [tasks EXCEPT
                            ![t].pc = OnWorkerError(tasks[t].kind)]
  /\ UNCHANGED << fixedVars, workers, mappings, nextRec, store, pooled,
                  worker_engines, resp, asked >>

\* get_worker_session: return _worker_sessions[worker_id]()
session_return(t) ==
  /\ tasks[t].pc = "return"
  /\ tasks' = [tasks EXCEPT ![t].pc = tasks[t].after,
                            ![t].got = worker_engines[tasks[t].wid].kept]
  /\ UNCHANGED << fixedVars, workers, mappings, nextRec, store, schema,
                  pooled, worker_engines, resp, asked >>

\* write_record: the insert on the worker, then the insert of the mapping
write_put(t) ==
  /\ tasks[t].pc = "put"
  /\ LET w    == tasks[t].wid
         url  == workers[w].db_url
         size == SizeOf(tasks[t].data)
     IN IF ~Answers(url)
        THEN /\ tasks' = [tasks EXCEPT ![t].pc = "raise"]
             /\ UNCHANGED << store, mappings >>
        ELSE /\ store' = [store EXCEPT ![url] = @ \cup
                            {NewRecord(tasks[t].rid, "default",
                                       tasks[t].data, size)}]
             /\ mappings' = mappings \cup
                              {NewMapping(tasks[t].rid, w, "default")}
             /\ tasks' = [tasks EXCEPT ![t].pc = "stats_read", ![t].sw = w,
                                       ![t].db = size, ![t].dr = 1,
                                       ![t].after2 = "respond"]
  /\ UNCHANGED << fixedVars, workers, nextRec, schema, pooled,
                  worker_engines, resp, asked >>

\* update_worker_stats: w = s.query(WorkerDB).filter_by(id=worker_id).first()
stats_read(t) ==
  /\ tasks[t].pc = "stats_read"
  /\ tasks' = IF tasks[t].sw \in DOMAIN workers
              THEN [tasks EXCEPT
                      ![t].pc = "stats_write",
                      ![t].rd = << workers[tasks[t].sw].size_bytes,
                                   workers[tasks[t].sw].record_count >>]
              ELSE [tasks EXCEPT ![t].pc = tasks[t].after2]
  /\ UNCHANGED << fixedVars, workers, mappings, nextRec, store, schema,
                  pooled, worker_engines, resp, asked >>

\* update_worker_stats: the two assignments and the commit, which writes
\* the columns size_bytes and record_count of the row
stats_write(t) ==
  /\ tasks[t].pc = "stats_write"
  /\ workers' = IF tasks[t].sw \in DOMAIN workers
                THEN [workers EXCEPT
                        ![tasks[t].sw].size_bytes =
                          Max(0, tasks[t].rd[1] + tasks[t].db),
                        ![tasks[t].sw].record_count =
                          Max(0, tasks[t].rd[2] + tasks[t].dr)]
                ELSE workers
  /\ tasks' = [tasks EXCEPT ![t].pc = tasks[t].after2]
  /\ UNCHANGED << fixedVars, mappings, nextRec, store, schema, pooled,
                  worker_engines, resp, asked >>

delete_begin(t) ==
  /\ tasks[t].kind = "delete" /\ tasks[t].pc = "queued"
  /\ LoopFree
  /\ UNCHANGED << fixedVars, workers, mappings, nextRec, store, schema,
                  pooled, worker_engines, asked >>
  /\ IF MappingsOf(mappings, tasks[t].rid) = {}
     THEN /\ tasks' = [tasks EXCEPT ![t].pc = "done", ![t].status = 404]
          /\ resp' = [op |-> "delete_record", status |-> 404,
                      id |-> tasks[t].rid]
     ELSE /\ UNCHANGED resp
          /\ \E m \in MappingsOf(mappings, tasks[t].rid) :
               tasks' = IF m.worker_id \in DOMAIN workers
                        THEN [tasks EXCEPT ![t].pc = "check",
                                           ![t].wid = m.worker_id,
                                           ![t].after = "del"]
                        ELSE [tasks EXCEPT ![t].pc = "unmap"]

\* delete_record: the deletion on the worker
delete_del(t) ==
  /\ tasks[t].pc = "del"
  /\ LET w    == tasks[t].wid
         url  == workers[w].db_url
         recs == IF Answers(url) THEN RecordsOf(store, url, tasks[t].rid)
                 ELSE {}
     IN IF recs = {}
        THEN /\ tasks' = [tasks EXCEPT ![t].pc = "unmap"]
             /\ UNCHANGED store
        ELSE \E r \in recs :
               /\ store' = [store EXCEPT ![url] = @ \ {r}]
               /\ tasks' = [tasks EXCEPT ![t].pc = "stats_read",
                                         ![t].sw = w,
                                         ![t].db = 0 - r.size_bytes,
                                         ![t].dr = -1,
                                         ![t].after2 = "unmap"]
  /\ UNCHANGED << fixedVars, workers, mappings, nextRec, schema, pooled,
                  worker_engines, resp, asked >>

\* delete_record: the deletion of the mapping
delete_unmap(t) ==
  /\ tasks[t].pc = "unmap"
  /\ IF MappingsOf(mappings, tasks[t].rid) = {}
     THEN UNCHANGED mappings
     ELSE \E mp \in MappingsOf(mappings, tasks[t].rid) :
            mappings' = mappings \ {mp}
  /\ tasks' = [tasks EXCEPT ![t].pc = "respond"]
  /\ UNCHANGED << fixedVars, workers, nextRec, store, schema, pooled,
                  worker_engines, resp, asked >>

\* rebalance of one record id
rebalance_begin(t) ==
  /\ tasks[t].kind = "rebalance" /\ tasks[t].pc = "queued"
  /\ LoopFree
  /\ UNCHANGED << fixedVars, workers, mappings, nextRec, store, schema,
                  pooled, worker_engines, asked >>
  /\ IF tasks[t].tw \notin DOMAIN workers \/ ~workers[tasks[t].tw].is_active
     THEN /\ tasks' = [tasks EXCEPT ![t].pc = "done", ![t].status = 404]
          /\ resp' = [op |-> "rebalance", status |-> 404]
     ELSE /\ UNCHANGED resp
          /\ IF MappingsOf(mappings, tasks[t].rid) = {}
             THEN tasks' = [tasks EXCEPT ![t].pc = "respond"]
             ELSE \E m \in MappingsOf(mappings, tasks[t].rid) :
                    tasks' =
                      IF \/ m.worker_id = tasks[t].tw
                         \/ m.worker_id \notin DOMAIN workers
                      THEN [tasks EXCEPT ![t].pc = "respond"]
                      ELSE [tasks EXCEPT ![t].pc = "check",
                                         ![t].wid = m.worker_id,
                                         ![t].src = m.worker_id,
                                         ![t].after = "take"]

\* rebalance: the record is read and deleted on the source
rebalance_take(t) ==
  /\ tasks[t].pc = "take"
  /\ LET url  == workers[tasks[t].src].db_url
         recs == IF Answers(url) THEN RecordsOf(store, url, tasks[t].rid)
                 ELSE {}
     IN IF recs = {}
        THEN /\ tasks' = [tasks EXCEPT ![t].pc = "respond"]
             /\ UNCHANGED store
        ELSE \E r \in recs :
               /\ store' = [store EXCEPT ![url] = @ \ {r}]
               /\ tasks' = [tasks EXCEPT ![t].pc = "check",
                                         ![t].wid = tasks[t].tw,
                                         ![t].rec = << r >>,
                                         ![t].after = "give"]
  /\ UNCHANGED << fixedVars, workers, mappings, nextRec, schema, pooled,
                  worker_engines, resp, asked >>

\* rebalance: the record is written to the target, then the mapping is
\* pointed at the target
rebalance_give(t) ==
  /\ tasks[t].pc = "give"
  /\ LET url == workers[tasks[t].tw].db_url
         r   == tasks[t].rec[1]
     IN IF ~Answers(url) \/ RecordsOf(store, url, tasks[t].rid) # {}
        THEN /\ tasks' = [tasks EXCEPT ![t].pc = "respond"]
             /\ UNCHANGED << store, mappings >>
        ELSE /\ store' = [store EXCEPT ![url] = @ \cup
                            {[r EXCEPT !.data = Dumps(Loads(r.data))]}]
             /\ mappings' =
                  { IF m.record_id = tasks[t].rid
                    THEN [m EXCEPT !.worker_id = tasks[t].tw] ELSE m
                    : m \in mappings }
             /\ tasks' = [tasks EXCEPT ![t].pc = "stats_read",
                                       ![t].sw = tasks[t].src,
                                       ![t].db = 0 - r.size_bytes,
                                       ![t].dr = -1,
                                       ![t].after2 = "stats2"]
  /\ UNCHANGED << fixedVars, workers, nextRec, schema, pooled,
                  worker_engines, resp, asked >>

\* rebalance: the second call of update_worker_stats, for the target
rebalance_stats2(t) ==
  /\ tasks[t].pc = "stats2"
  /\ tasks' = [tasks EXCEPT ![t].pc = "stats_read",
                            ![t].sw = tasks[t].tw,
                            ![t].db = tasks[t].rec[1].size_bytes,
                            ![t].dr = 1,
                            ![t].moved = 1,
                            ![t].after2 = "respond"]
  /\ UNCHANGED << fixedVars, workers, mappings, nextRec, store, schema,
                  pooled, worker_engines, resp, asked >>

\* the handler returns its response or raises HTTPException(500)
finish(t) ==
  /\ tasks[t].pc \in {"respond", "raise"}
  /\ LET st == IF tasks[t].pc = "respond" THEN 200 ELSE 500
     IN /\ tasks' = [tasks EXCEPT ![t].pc = "done", ![t].status = st]
        /\ resp' =
             CASE tasks[t].kind = "write" /\ st = 200 ->
                    [op |-> "write_record", status |-> 200,
                     id |-> tasks[t].rid,
                     worker |-> workers[tasks[t].wid].name,
                     worker_id |-> tasks[t].wid, collection |-> "default",
                     size_bytes |-> SizeOf(tasks[t].data)]
               [] tasks[t].kind = "write" /\ st = 500 ->
                    [op |-> "write_record", status |-> 500]
               [] tasks[t].kind = "delete" ->
                    [op |-> "delete_record", status |-> st,
                     id |-> tasks[t].rid]
               [] tasks[t].kind = "rebalance" ->
                    [op |-> "rebalance", status |-> st,
                     moved |-> tasks[t].moved,
                     target |-> workers[tasks[t].tw].name]
        /\ asked' = IF tasks[t].kind = "write" /\ st = 200
                    THEN asked \cup {[key |-> "k1", id |-> tasks[t].rid,
                                      data |-> tasks[t].data]}
                    ELSE asked
  /\ UNCHANGED << fixedVars, workers, mappings, nextRec, store, schema,
                  pooled, worker_engines >>

(***************************************************************************)
(* Specifications.                                                         *)
(***************************************************************************)
\* the record_ids of a rebalance request: one id, or two in ascending order
IdLists(S) ==
  { <<r>> : r \in S } \cup { <<p[1], p[2]>> : p \in { q \in S \X S : q[1] < q[2] } }

\* the workers an operator registers: name and db_url
Nodes == << <<"w1", "u1">>, <<"w2", "u2">>, <<"w3", "u3">>, <<"w4", "u4">> >>

\* Spec: the life cycle of workers and records
Next ==
  \/ \E i \in 1..MaxWorkers :
       nextWid <= MaxWorkers /\ add_worker(Nodes[i][1], Nodes[i][2], FALSE)
  \/ \E w \in 1..MaxWorkers, want \in {"on", "off", "flip"} :
       toggle_worker(w, want)
  \/ \E w \in 1..MaxWorkers : remove_worker(w)
  \/ \E k \in ClientKeys, c \in Collections, p \in Payloads :
       nextRec <= MaxRecords /\ write_record(k, c, p, "none")
  \/ \E r \in 1..MaxRecords : get_record(r)
  \/ \E r \in 1..MaxRecords : delete_record(r, "none")
  \/ \E ids \in IdLists(1..MaxRecords), w \in 1..MaxWorkers : rebalance(ids, w)
  \/ \E i \in 1..MaxWorkers, up \in BOOLEAN : SetReachable(Nodes[i][2], up)

Spec == Init /\ [][Next]_vars

\* the records of a bulk_write request: none, or two items
Batches ==
  { << >> } \cup { << p, p >> : p \in SearchPayloads }

\* SpecRoute: the choice of the worker a write goes to
NextRoute ==
  \/ \E i \in 1..MaxWorkers :
       nextWid <= MaxWorkers /\ add_worker(Nodes[i][1], Nodes[i][2], FALSE)
  \/ \E w \in 1..MaxWorkers, want \in {"on", "off", "flip"} :
       toggle_worker(w, want)
  \/ \E k \in ClientKeys, c \in Collections, p \in Payloads :
       nextRec <= MaxRecords /\ write_record(k, c, p, "none")
  \/ \E sz \in FileSizes : nextFile <= MaxFiles /\ upload_file(sz)
  \/ \E mb \in LimitChoices : set_shard_limit(mb)
  \/ \E v \in {"true", "false"} : set_anti_sleep(v)
  \/ anti_sleep_ping(1)
  \/ \E i \in 1..MaxWorkers, up \in BOOLEAN : SetReachable(Nodes[i][2], up)

SpecRoute == Init /\ [][NextRoute]_vars

\* SpecSearch: scatter search over up to three workers
NextSearch ==
  \/ \E i \in 1..SearchWorkers :
       nextWid = i /\ add_worker(Nodes[i][1], Nodes[i][2], FALSE)
  \/ \E p \in SearchPayloads :
       nextRec <= SearchRecords /\ write_record("k1", "default", p, "none")
  \/ \E u \in Urls, up \in BOOLEAN : SetReachable(u, up)
  \/ \E q \in Queries, lim \in Limits : smart_search(q, "", lim)

SpecSearch == Init /\ [][NextSearch]_vars

\* the master-DB statement of a request that fails, if any
WriteFaults  == {"none", "select", "mapping", "stats"}
DeleteFaults == {"none", "stats", "unmap"}

\* a time later than every last_ping recorded
Now ==
  CHOOSE t \in 1..(MaxPings + 1) :
    /\ \A w \in DOMAIN workers : workers[w].last_ping < t
    /\ \A u \in 1..(t - 1) : \E w \in DOMAIN workers : workers[w].last_ping >= u

\* SpecFault: records under failures of the master DB and of the workers
NextFault ==
  \/ \E i \in 1..MaxWorkers :
       nextWid <= MaxWorkers /\ add_worker(Nodes[i][1], Nodes[i][2], FALSE)
  \/ \E k \in ClientKeys, c \in Collections, p \in SearchPayloads,
        f \in WriteFaults :
       nextRec <= MaxRecords /\ write_record(k, c, p, f)
  \/ \E r \in 1..MaxRecords, f \in DeleteFaults : delete_record(r, f)
  \/ \E ids \in IdLists(1..MaxRecords), w \in 1..MaxWorkers : rebalance(ids, w)
  \/ Now <= MaxPings /\ anti_sleep_ping(Now)
  \/ \E i \in 1..MaxWorkers, up \in BOOLEAN : SetReachable(Nodes[i][2], up)

SpecFault == Init /\ [][NextFault]_vars

AdminNames == {"w1", "w2"}
AdminUrls  == {"u1", "u2"}

\* SpecAdmin: the registry of workers, with names and db_urls chosen freely
NextAdmin ==
  \/ \E n \in AdminNames, u \in AdminUrls, d \in BOOLEAN :
       nextWid <= AdminWorkers /\ add_worker(n, u, d)
  \/ \E w \in 1..AdminWorkers, want \in {"on", "off", "flip"} :
       toggle_worker(w, want)
  \/ \E w \in 1..AdminWorkers : remove_worker(w)
  \/ \E u \in AdminUrls, up \in BOOLEAN : SetReachable(u, up)

SpecAdmin == Init /\ [][NextAdmin]_vars

\* SpecProbe: the scheduler runs anti_sleep_ping again and again (the job
\* added by start_scheduler with an IntervalTrigger), while workers are
\* registered, deactivated and removed and their datastores come and go
NextProbe ==
  \/ \E i \in 1..MaxWorkers :
       nextWid <= MaxWorkers /\ add_worker(Nodes[i][1], Nodes[i][2], FALSE)
  \/ \E w \in 1..MaxWorkers, want \in {"on", "off", "flip"} :
       toggle_worker(w, want)
  \/ \E w \in 1..MaxWorkers : remove_worker(w)
  \/ \E v \in {"true", "false"} : set_anti_sleep(v)
  \/ anti_sleep_ping(1)
  \/ \E i \in 1..MaxWorkers, up \in BOOLEAN : SetReachable(Nodes[i][2], up)

SpecProbe == Init /\ [][NextProbe]_vars /\ WF_vars(anti_sleep_ping(1))

\* the worker_id of a listing: none (0) or the first worker
WorkerIds == {0, 1}

\* SpecQuery: search and listing over three workers, of which the first
\* two get deactivated and reactivated and the last two go down and come back
NextQuery ==
  \/ \E i \in 1..SearchWorkers :
       nextWid = i /\ add_worker(Nodes[i][1], Nodes[i][2], FALSE)
  \/ \E w \in 1..(SearchWorkers - 1) : toggle_worker(w, "flip")
  \/ \E p \in SearchPayloads :
       nextRec <= SearchRecords /\ write_record("k1", "default", p, "none")
  \/ \E i \in 2..SearchWorkers, up \in BOOLEAN : SetReachable(Nodes[i][2], up)
  \/ \E q \in Queries, lim \in Limits : smart_search(q, "", lim)
  \/ \E w \in WorkerIds, lim \in Limits, off \in Offsets :
       query_records(w, "", lim, off)

SpecQuery == Init /\ [][NextQuery]_vars

\* SpecWrite: the three routes that store something new, with workers that
\* get deactivated and a limit that gets changed
NextWrite ==
  \/ \E i \in 1..MaxWorkers :
       nextWid <= MaxWorkers /\ add_worker(Nodes[i][1], Nodes[i][2], FALSE)
  \/ \E w \in 1..MaxWorkers : toggle_worker(w, "flip")
  \/ \E p \in SearchPayloads :
       nextRec <= WriteRecords /\ write_record("k1", "default", p, "none")
  \/ \E items \in Batches :
       nextRec + Len(items) - 1 <= WriteRecords /\ bulk_write("default", items)
  \/ \E sz \in FileSizes : nextFile <= MaxFiles /\ upload_file(sz)
  \/ \E mb \in LimitChoices : set_shard_limit(mb)
  \/ \E i \in 1..MaxWorkers, up \in BOOLEAN : SetReachable(Nodes[i][2], up)

SpecWrite == Init /\ [][NextWrite]_vars

\* SpecBulk: the routes that change the usage counters, with every
\* datastore answering and no file uploaded
NextBulk ==
  \/ \E i \in 1..MaxWorkers :
       nextWid <= MaxWorkers /\ add_worker(Nodes[i][1], Nodes[i][2], FALSE)
  \/ \E p \in SearchPayloads :
       nextRec <= WriteRecords /\ write_record("k1", "default", p, "none")
  \/ \E items \in Batches :
       nextRec + Len(items) - 1 <= WriteRecords /\ bulk_write("default", items)
  \/ \E r \in 1..WriteRecords : delete_record(r, "none")
  \/ \E ids \in IdLists(1..WriteRecords) : bulk_delete(ids)
  \/ \E ids \in IdLists(1..WriteRecords), w \in 1..MaxWorkers :
       rebalance(ids, w)

SpecBulk == Init /\ [][NextBulk]_vars

\* SpecRace: a delete and a rebalance that arrive while the other is in
\* progress, over records written before, with every datastore answering
NextRace ==
  \/ \E i \in 1..MaxWorkers :
       /\ nextWid <= MaxWorkers /\ tasks = << >>
       /\ add_worker(Nodes[i][1], Nodes[i][2], FALSE)
  \/ \E p \in SearchPayloads :
       /\ nextRec <= MaxRecords /\ tasks = << >>
       /\ write_record("k1", "default", p, "none")
  \/ \E r \in 1..MaxRecords :
       Len(tasks) < MaxTasks /\ Arrive("delete", << >>, r, 0)
  \/ \E r \in 1..MaxRecords, w \in 1..MaxWorkers :
       Len(tasks) < MaxTasks /\ Arrive("rebalance", << >>, r, w)
  \/ \E t \in DOMAIN tasks : delete_begin(t)
  \/ \E t \in DOMAIN tasks : rebalance_begin(t)
  \/ \E t \in DOMAIN tasks : session_check(t)
  \/ \E t \in DOMAIN tasks : session_make(t)
  \/ \E t \in DOMAIN tasks : session_insert(t)
  \/ \E t \in DOMAIN tasks : session_create_all(t)
  \/ \E t \in DOMAIN tasks : session_return(t)
  \/ \E t \in DOMAIN tasks : delete_del(t)
  \/ \E t \in DOMAIN tasks : delete_unmap(t)
  \/ \E t \in DOMAIN tasks : rebalance_take(t)
  \/ \E t \in DOMAIN tasks : rebalance_give(t)
  \/ \E t \in DOMAIN tasks : rebalance_stats2(t)
  \/ \E t \in DOMAIN tasks : stats_read(t)
  \/ \E t \in DOMAIN tasks : stats_write(t)
  \/ \E t \in DOMAIN tasks : finish(t)

SpecRace == Init /\ [][NextRace]_vars

\* SpecSweep: deletes and bulk deletes of records of which some have been
\* lost by a rebalance whose target did not answer
NextSweep ==
  \/ \E i \in 1..MaxWorkers :
       nextWid <= MaxWorkers /\ add_worker(Nodes[i][1], Nodes[i][2], FALSE)
  \/ \E p \in SearchPayloads :
       nextRec <= MaxRecords /\ write_record("k1", "default", p, "none")
  \/ \E r \in 1..MaxRecords, w \in 1..MaxWorkers : rebalance(<< r >>, w)
  \/ \E r \in 1..MaxRecords : delete_record(r, "none")
  \/ \E ids \in IdLists(1..MaxRecords) : bulk_delete(ids)
  \/ \E i \in 1..MaxWorkers, up \in BOOLEAN : SetReachable(Nodes[i][2], up)

SpecSweep == Init /\ [][NextSweep]_vars

\* SpecLoop: requests that arrive while others are in progress, with every
\* worker datastore answering
NextLoop ==
  \/ \E i \in 1..MaxWorkers :
       nextWid <= MaxWorkers /\ add_worker(Nodes[i][1], Nodes[i][2], FALSE)
  \/ \E p \in SearchPayloads :
       Len(tasks) < MaxTasks /\ Arrive("write", p, 0, 0)
  \/ \E r \in 1..MaxRecords :
       Len(tasks) < MaxTasks /\ Arrive("delete", << >>, r, 0)
  \/ \E r \in 1..MaxRecords, w \in 1..MaxWorkers :
       Len(tasks) < MaxTasks /\ Arrive("rebalance", << >>, r, w)
  \/ \E t \in DOMAIN tasks : nextRec <= MaxRecords /\ write_begin(t)
  \/ \E t \in DOMAIN tasks : delete_begin(t)
  \/ \E t \in DOMAIN tasks : rebalance_begin(t)
  \/ \E t \in DOMAIN tasks : session_check(t)
  \/ \E t \in DOMAIN tasks : session_make(t)
  \/ \E t \in DOMAIN tasks : session_insert(t)
  \/ \E t \in DOMAIN tasks : session_create_all(t)
  \/ \E t \in DOMAIN tasks : session_return(t)
  \/ \E t \in DOMAIN tasks : write_put(t)
  \/ \E t \in DOMAIN tasks : delete_del(t)
  \/ \E t \in DOMAIN tasks : delete_unmap(t)
  \/ \E t \in DOMAIN tasks : rebalance_take(t)
  \/ \E t \in DOMAIN tasks : rebalance_give(t)
  \/ \E t \in DOMAIN tasks : rebalance_stats2(t)
  \/ \E t \in DOMAIN tasks : stats_read(t)
  \/ \E t \in DOMAIN tasks : stats_write(t)
  \/ \E t \in DOMAIN tasks : finish(t)
  \/ anti_sleep_ping(1)

SpecLoop == Init /\ [][NextLoop]_vars

(***************************************************************************)
(* Properties.                                                             *)
(***************************************************************************)
\* the worker datastore of worker row w answers and has its tables
Usable(w) ==
  /\ w \in DOMAIN workers
  /\ SessionOk(schema, pooled, w, workers[w].db_url)

\* C2: a read that succeeds returns a payload equal to the one the write of
\* that id was given, and a read that directly follows the successful write
\* of an id, with the worker's datastore answering, succeeds.
RoundTrip ==
  [][\A r \in 1..MaxRecords :
       get_record(r) =>
         /\ resp'.status = 200 =>
              \E a \in asked : a.id = r /\ resp'.data = a.data
         /\ ( /\ resp.op = "write_record"
              /\ resp.status = 200
              /\ resp.id = r
              /\ Usable(resp.worker_id) ) => resp'.status = 200]_vars

\* C2 witness: a read has returned a payload with a string that needs escaping
RoundTripSeen ==
  /\ resp.op = "get_record"
  /\ resp.status = 200
  /\ \E i \in DOMAIN resp.data : resp.data[i].v.t = "str"

\* the workers a write arriving now can be routed to
WriteTargets == get_available_worker(workers)

Eligible(w) ==
  /\ workers[w].is_active
  /\ workers[w].is_healthy
  /\ workers[w].size_bytes < LimitBytes

RowsOfKey(ms, k) ==
  { m \in ms : \E a \in asked : a.key = k /\ a.id = m.record_id }

SwitchCase(a, b) ==
  /\ a # b
  /\ ActiveWorkers = {a, b}
  /\ resp.op \in {"write_record", "upload_file"}
  /\ resp.status = 200
  /\ resp.worker_id = a
  /\ workers[a].size_bytes >= LimitBytes
  /\ workers[b].size_bytes = 0
  /\ Usable(b)

\* the write has succeeded on b, and a is not eligible for new writes
SwitchedTo(a, b) ==
  /\ resp'.status = 200
  /\ resp'.worker_id = b
  /\ \E r \in store'[workers[b].db_url] : r.id = resp'.id
  /\ a \notin Candidates(workers')

AllFull == \A w \in ActiveWorkers : workers[w].size_bytes >= LimitBytes

\* C5: when every active worker is at or above the limit, a write answers
\* 503 and changes neither the mappings, nor the records, nor the counters.
Exhaustion ==
  [][\A k \in ClientKeys, c \in Collections, p \in Payloads :
       (AllFull /\ write_record(k, c, p, "none"))
       => /\ resp'.status = 503
          /\ mappings' = mappings
          /\ store' = store
          /\ workers' = workers]_vars

\* C5 witness: a write was refused while an active, healthy worker was full
ExhaustionSeen ==
  /\ resp.op = "write_record"
  /\ resp.status = 503
  /\ AllFull
  /\ \E w \in ActiveWorkers : workers[w].is_healthy

\* C6 as stated: after a successful delete the key has no mapping and the
\* counters of the worker that held it are lower by the record's size and 1
DeleteExact ==
  [][\A r \in 1..MaxRecords :
       (delete_record(r, "none") /\ resp'.status = 200)
       => /\ MappingsOf(mappings', r) = {}
          /\ \A m \in MappingsOf(mappings, r) :
             \A a \in asked :
               (a.id = r /\ m.worker_id \in DOMAIN workers)
               => /\ workers'[m.worker_id].size_bytes
                       = workers[m.worker_id].size_bytes - SizeOf(a.data)
                  /\ workers'[m.worker_id].record_count
                       = workers[m.worker_id].record_count - 1]_vars

\* the active workers and, among them, those whose datastore answers
SearchCase(down) ==
  /\ Cardinality(ActiveWorkers) = 3
  /\ down \in ActiveWorkers
  /\ ~reachable[workers[down].db_url]
  /\ \A w \in ActiveWorkers \ {down} : Usable(w)

Found(ws, q) ==
  UNION { { [id |-> r.id, worker_id |-> w] :
            r \in Matches(workers[w].db_url, "", q) } : w \in ws }

Returned(rsp) ==
  { [id |-> rsp.results[i].id, worker_id |-> rsp.results[i].worker_id] :
    i \in DOMAIN rsp.results }

MappingsReferToWorkers ==
  /\ \A m, n \in mappings : m.record_id = n.record_id => m = n
  /\ \A m \in mappings : m.worker_id \in DOMAIN workers

MetadataAgreement ==
  /\ \A m \in mappings :
       m.worker_id \in DOMAIN workers
       => Cardinality(RecordsOf(store, workers[m.worker_id].db_url,
                                m.record_id)) = 1
  /\ \A w \in DOMAIN workers : \A r \in store[workers[w].db_url] :
       Cardinality({ m \in mappings : /\ m.record_id = r.id
                                      /\ m.worker_id = w }) = 1

WrittenSize(rid) ==
  LET a == CHOOSE x \in asked : x.id = rid IN SizeOf(a.data)

\* what a finished request t has to add to the counters of worker w
Delta(t, w) ==
  LET k == tasks[t] IN
  IF k.pc # "done" \/ k.status # 200 THEN << 0, 0 >>
  ELSE CASE k.kind = "write" ->
              IF k.wid = w THEN << SizeOf(k.data), 1 >> ELSE << 0, 0 >>
         [] k.kind = "delete" ->
              IF k.wid = w THEN << 0 - WrittenSize(k.rid), -1 >>
              ELSE << 0, 0 >>
         [] k.kind = "rebalance" ->
              IF k.moved = 0 THEN << 0, 0 >>
              ELSE IF k.src = w THEN << 0 - WrittenSize(k.rid), -1 >>
              ELSE IF k.tw = w THEN << WrittenSize(k.rid), 1 >>
              ELSE << 0, 0 >>

RECURSIVE SumDeltas(_, _)
SumDeltas(n, w) ==
  IF n = 0 THEN << 0, 0 >>
  ELSE << SumDeltas(n - 1, w)[1] + Delta(n, w)[1],
          SumDeltas(n - 1, w)[2] + Delta(n, w)[2] >>

\* C18: whenever no handler is in progress, the counters of every worker
\* equal the sum of the deltas of the writes, deletes and rebalances that
\* succeeded, whatever requests arrived while others were in progress.
CountersAddUp ==
  Quiescent =>
    \A w \in DOMAIN workers :
      /\ workers[w].size_bytes = SumDeltas(Len(tasks), w)[1]
      /\ workers[w].record_count = SumDeltas(Len(tasks), w)[2]

\* C18 witness: a write and a later delete or move of its record, which
\* arrived while a handler was running, have both finished on one worker
CountersSeen ==
  /\ Quiescent
  /\ \E t, u \in DOMAIN tasks :
       /\ tasks[t].kind = "write" /\ tasks[t].status = 200
       /\ tasks[u].kind \in {"delete", "rebalance"}
       /\ tasks[u].status = 200 /\ tasks[u].waited
       /\ tasks[u].rid = tasks[t].rid
       /\ Delta(u, tasks[t].wid)[2] = -1

\* the mapping of record r points to worker row w
MappedTo(r, w) ==
  /\ w \in DOMAIN workers
  /\ \E m \in MappingsOf(mappings, r) : m.worker_id = w

\* C13 as stated: a read of a record whose mapping points to an inactive or
\* unreachable worker answers "unavailable", neither the payload nor
\* not-found
ReadUnavailable ==
  [][\A r \in 1..MaxRecords, w \in 1..MaxWorkers :
       ( /\ MappedTo(r, w)
         /\ ~workers[w].is_active \/ ~reachable[workers[w].db_url]
         /\ get_record(r) )
       => resp'.status \notin {200, 404}]_vars

\* C13: a read of a record whose mapping points to an unreachable worker
\* answers 500, distinct from not-found; is_active plays no part: when the
\* worker's datastore answers, the read returns the payload if the record
\* is there (404 "Record not found in shard" if not), active or not.
ReadIgnoresActive ==
  [][\A r \in 1..MaxRecords, w \in 1..MaxWorkers :
       (MappedTo(r, w) /\ get_record(r))
       => LET url == workers[w].db_url IN
          /\ ~reachable[url] => resp'.status = 500
          /\ Usable(w) =>
               IF RecordsOf(store, url, r) = {}
               THEN /\ resp'.status = 404
                    /\ resp'.detail = "Record not found in shard"
               ELSE /\ resp'.status = 200
                    /\ \E a \in asked : a.id = r /\ a.data = resp'.data]_vars

\* C13 witness: a read has returned the payload of a record whose worker
\* is inactive
InactiveRead ==
  /\ resp.op = "get_record"
  /\ resp.status = 200
  /\ \E w \in DOMAIN workers :
       /\ MappedTo(resp.id, w)
       /\ ~workers[w].is_active

\* C14 as stated: a delete of a record whose worker is unreachable answers
\* an error, never success
DeleteSurfacesFailure ==
  [][\A r \in 1..MaxRecords, w \in 1..MaxWorkers :
       ( /\ MappedTo(r, w)
         /\ ~reachable[workers[w].db_url]
         /\ delete_record(r, "none") )
       => resp'.status # 200]_vars

\* some row of worker_dbs has db_url u
UrlRegistered(u) == \E w \in DOMAIN workers : workers[w].db_url = u

\* C15 as stated: add_worker is rejected and leaves worker_dbs as it was
\* when the db_url is unreachable or already registered, under any name
AddRejectsDuplicates ==
  [][\A n \in AdminNames, u \in AdminUrls, d \in BOOLEAN :
       (add_worker(n, u, d) /\ (~reachable[u] \/ UrlRegistered(u)))
       => /\ resp'.status # 200
          /\ workers' = workers]_vars

\* C15: add_worker answers 400 when the db_url is unreachable and 409 when
\* the name is registered, and leaves worker_dbs as it was in both cases;
\* otherwise it adds an active, healthy, empty row for the db_url, whether
\* or not another row has that db_url, and the row stays when the creation
\* of the worker tables then fails with 500.
AddRejectsUnreachableOrName ==
  [][\A n \in AdminNames, u \in AdminUrls, d \in BOOLEAN :
       add_worker(n, u, d)
       => /\ ~reachable[u] => (resp'.status = 400 /\ workers' = workers)
          /\ (reachable[u] /\ (\E w \in DOMAIN workers : workers[w].name = n))
               => (resp'.status = 409 /\ workers' = workers)
          /\ (reachable[u] /\ ~(\E w \in DOMAIN workers : workers[w].name = n))
               => /\ resp'.status = IF d THEN 500 ELSE 200
                  /\ DOMAIN workers' = DOMAIN workers \cup {nextWid}
                  /\ nextWid \notin DOMAIN workers
                  /\ \A w \in DOMAIN workers : workers'[w] = workers[w]
                  /\ workers'[nextWid] =
                       [name |-> n, db_url |-> u, is_active |-> TRUE,
                        is_healthy |-> TRUE, size_bytes |-> 0,
                        record_count |-> 0, last_ping |-> 0]]_vars

\* C15 witness: a db_url has been registered a second time, under another
\* name
SameUrlTwice ==
  /\ resp.op = "add_worker"
  /\ resp.status = 200
  /\ \E v, w \in DOMAIN workers :
       /\ v # w
       /\ workers[v].db_url = workers[w].db_url
       /\ workers[w].name = resp.name

\* C16 as stated: a write that answers an error has added no record and no
\* mapping and has changed no counter
FailedWriteLeavesNoTrace ==
  [][\A k \in ClientKeys, c \in Collections, p \in SearchPayloads,
       f \in WriteFaults :
       (write_record(k, c, p, f) /\ resp'.status # 200)
       => /\ store' = store
          /\ mappings' = mappings
          /\ workers' = workers]_vars

\* record r is held by exactly one datastore, which is the one of the
\* worker the mapping of r points to
HeldOnce(st, ms, ws, r) ==
  /\ Cardinality({ u \in Urls : RecordsOf(st, u, r) # {} }) = 1
  /\ \E m \in MappingsOf(ms, r) :
       /\ m.worker_id \in DOMAIN ws
       /\ RecordsOf(st, ws[m.worker_id].db_url, r) # {}

\* C17 as stated: after a rebalance, every record of the request that was
\* held by one worker is held by one worker, the one its mapping points to
RebalanceKeepsRecords ==
  [][\A ids \in IdLists(1..MaxRecords), tw \in 1..MaxWorkers :
       rebalance(ids, tw)
       => \A i \in DOMAIN ids :
            HeldOnce(store, mappings, workers, ids[i])
            => HeldOnce(store', mappings', workers', ids[i])]_vars

\* the record and the mapping a successful write has added
WriteStored(p) ==
  LET w == resp'.worker_id IN
  /\ w \in DOMAIN workers
  /\ \E r \in store'[workers[w].db_url] :
       /\ r.id = resp'.id
       /\ r.size_bytes = SizeOf(p)
       /\ r \notin store[workers[w].db_url]
  /\ \E m \in mappings' \ mappings :
       m.record_id = resp'.id /\ m.worker_id = w
  /\ \A v \in DOMAIN workers \ {w} : workers'[v] = workers[v]
  /\ DOMAIN workers' = DOMAIN workers

\* the counters of the worker of the write have gone up by the size of the
\* serialized payload and by 1
WriteApplied(p) ==
  LET w == resp'.worker_id IN
  workers'[w] = [workers[w] EXCEPT !.size_bytes = @ + SizeOf(p),
                                   !.record_count = @ + 1]

\* C19 as stated: a successful write has stored the record and the mapping
\* and has raised the counters of the selected worker, and of no other, by
\* the size of the serialized payload and by 1
WriteCounts ==
  [][\A k \in ClientKeys, c \in Collections, p \in SearchPayloads,
       f \in WriteFaults :
       (write_record(k, c, p, f) /\ resp'.status = 200)
       => (WriteStored(p) /\ WriteApplied(p))]_vars

\* C19: a successful write has stored the record on the selected worker
\* and the mapping to it, and has changed no other worker's counters; the
\* counters of the selected worker have gone up by the size of the
\* serialized payload and by 1, unless update_worker_stats failed, in which
\* case the write still succeeds and the counters are left as they were.
WriteCountsUnlessStatsFail ==
  [][\A k \in ClientKeys, c \in Collections, p \in SearchPayloads,
       f \in WriteFaults :
       (write_record(k, c, p, f) /\ resp'.status = 200)
       => /\ WriteStored(p)
          /\ IF f = "stats" THEN workers' = workers ELSE WriteApplied(p)]_vars

\* C19 witness: a write has raised the counters of one of two workers
WriteCounted ==
  /\ resp.op = "write_record"
  /\ resp.status = 200
  /\ Cardinality(DOMAIN workers) = 2
  /\ resp.worker_id \in DOMAIN workers
  /\ workers[resp.worker_id].size_bytes = 2 * resp.size_bytes
  /\ workers[resp.worker_id].record_count = 2

RECURSIVE SumSizes(_)
SumSizes(S) ==
  IF S = {} THEN 0
  ELSE LET x == CHOOSE y \in S : TRUE IN x.size_bytes + SumSizes(S \ {x})

\* the bytes the datastore of db_url u holds
Authoritative(u) == SumSizes(store[u]) + SumSizes(files[u])

Probed(w) ==
  /\ w \in DOMAIN workers
  /\ workers[w].is_active
  /\ reachable[workers[w].db_url]
  /\ anti_sleep_enabled = "true"

\* C23: with the scheduler running the enabled anti_sleep_ping again and
\* again, an active worker that is marked unhealthy and whose datastore
\* answers is eventually marked healthy, unless it stops being active or
\* reachable, or the engine is disabled, before that.
Recovery ==
  \A w \in 1..MaxWorkers :
    (Probed(w) /\ ~workers[w].is_healthy)
      ~> (~Probed(w) \/ workers[w].is_healthy)

\* C23 witness: an active worker marked unhealthy by a pass has a datastore
\* that answers again, with the engine enabled
OfflineButBack ==
  \E w \in DOMAIN workers : Probed(w) /\ ~workers[w].is_healthy

\* C24: in a pass in which the probe of an active worker fails, every other
\* active worker is probed all the same: it is marked healthy, with the
\* time of the pass, when its datastore answers, and unhealthy when not.
PassIsolated ==
  [][anti_sleep_ping(Now)
     => \A w, v \in DOMAIN workers :
          ( /\ w # v
            /\ workers[w].is_active /\ ~reachable[workers[w].db_url]
            /\ workers[v].is_active )
          => /\ workers'[w].is_healthy = FALSE
             /\ workers'[v].is_healthy = reachable[workers[v].db_url]
             /\ reachable[workers[v].db_url]
                => workers'[v].last_ping = Now]_vars

\* C24 witness: the last pass has failed on one worker, probed with success
\* by an earlier pass, and has succeeded on the other
PassSplit ==
  \E w, v \in DOMAIN workers :
    /\ ~workers[w].is_healthy /\ workers[w].last_ping = MaxPings - 1
    /\ workers[v].is_healthy /\ workers[v].last_ping = MaxPings

\* the workers a search or a listing gets rows from: active, and with a
\* datastore that answers
Scanned ==
  { w \in DOMAIN workers : workers[w].is_active /\ Usable(w) }

RECURSIVE SumFn(_, _)
SumFn(f, S) ==
  IF S = {} THEN 0
  ELSE LET x == CHOOSE y \in S : TRUE IN f[x] + SumFn(f, S \ {x})

\* the sizes of the pages of the workers scanned by a search
SearchPages(q, lim) ==
  [w \in Scanned |->
     Min(lim, Cardinality(Matches(workers[w].db_url, "", q)))]

\* the workers scanned by a listing, and the sizes of their pages
Listed(wid) == { w \in Scanned : wid = 0 \/ w = wid }

QueryPages(wid, lim, off) ==
  [w \in Listed(wid) |->
     Len(PageOf(workers[w].db_url, "", Min(lim, QUERY_MAX), off))]

\* C25 as stated: a search and a listing return the concatenation of the
\* pages of the active workers: every row of every page is in the result
ScatterConcatenates ==
  [][/\ \A q \in Queries, lim \in Limits :
          ( /\ resp'.op = "smart_search"
            /\ resp'.request = [query |-> q, limit |-> lim]
            /\ smart_search(q, "", lim) )
          => Len(resp'.results) = SumFn(SearchPages(q, lim), Scanned)
     /\ \A wid \in WorkerIds, lim \in Limits, off \in Offsets :
          ( /\ resp'.op = "query_records"
            /\ resp'.request = [worker_id |-> wid, limit |-> lim,
                                offset |-> off]
            /\ query_records(wid, "", lim, off) )
          => Len(resp'.records)
               = SumFn(QueryPages(wid, lim, off), Listed(wid))]_vars

\* C25: a search and a listing apply the same filter and limit (and offset)
\* to every active worker and to no inactive one, and concatenate the pages
\* of the workers that answer; total / count is the length of the
\* concatenation, of which only the first limit rows are returned.
ScatterTruncates ==
  [][/\ \A q \in Queries, lim \in Limits :
          ( /\ resp'.op = "smart_search"
            /\ resp'.request = [query |-> q, limit |-> lim]
            /\ smart_search(q, "", lim) )
          => LET sc == Scanned IN
             /\ resp'.total = SumFn(SearchPages(q, lim), sc)
             /\ Len(resp'.results) = Min(lim, resp'.total)
             /\ \A i \in DOMAIN resp'.results :
                  LET h == resp'.results[i] IN
                  /\ h.worker_id \in sc
                  /\ \E r \in Matches(workers[h.worker_id].db_url, "", q) :
                       h.id = r.id
     /\ \A wid \in WorkerIds, lim \in Limits, off \in Offsets :
          ( /\ resp'.op = "query_records"
            /\ resp'.request = [worker_id |-> wid, limit |-> lim,
                                offset |-> off]
            /\ query_records(wid, "", lim, off) )
          => LET ls == Listed(wid) IN
             /\ resp'.count = SumFn(QueryPages(wid, lim, off), ls)
             /\ Len(resp'.records) = Min(Min(lim, QUERY_MAX), resp'.count)
             /\ \A i \in DOMAIN resp'.records :
                  LET h  == resp'.records[i]
                      pg == PageOf(workers[h.worker_id].db_url, "",
                                   Min(lim, QUERY_MAX), off)
                  IN
                  /\ h.worker_id \in ls
                  /\ \E j \in DOMAIN pg : h.id = pg[j].id]_vars

\* C25 witness: a search has found more rows on the active workers than it
\* has returned, while an inactive worker holds a record
TruncatedSeen ==
  /\ resp.op = "smart_search"
  /\ resp.total > Len(resp.results)
  /\ Cardinality(Scanned) >= 2
  /\ \E w \in DOMAIN workers :
       ~workers[w].is_active /\ store[workers[w].db_url] # {}

\* C26 as stated: an add_worker that answers an error has left no row in
\* worker_dbs, and after any add_worker the datastore of every registered
\* worker has its tables
AddPersistsAfterSchema ==
  [][\A n \in AdminNames, u \in AdminUrls, d \in BOOLEAN :
       add_worker(n, u, d)
       => /\ resp'.status # 200 => workers' = workers
          /\ \A w \in DOMAIN workers' : workers'[w].db_url \in schema']_vars

\* worker w is active and below the limit now in force
OpenForWrites(w) ==
  /\ w \in DOMAIN workers
  /\ workers[w].is_active
  /\ workers[w].size_bytes < LimitBytes

\* the datastores that have rows they had not before the step
Grown ==
  { u \in Urls : store'[u] \ store[u] # {} \/ files'[u] \ files[u] # {} }

\* C27: whatever write_record, bulk_write or upload_file stores, it stores
\* on the datastore of one worker, which at that moment is active and has
\* size_bytes strictly below the limit in force; a success names that
\* worker. A worker that has been deactivated gets nothing new.
WritesGoToOpenWorkers ==
  [][\A k \in ClientKeys, c \in Collections, p \in SearchPayloads,
       items \in Batches, sz \in FileSizes :
       (\/ write_record(k, c, p, "none")
        \/ bulk_write(c, items)
        \/ upload_file(sz))
       => /\ \A u \in Grown :
               \E w \in DOMAIN workers :
                 /\ workers[w].db_url = u
                 /\ OpenForWrites(w)
                 /\ Grown = {u}
          /\ resp'.status = 200
             => /\ OpenForWrites(resp'.worker_id)
                /\ Grown = {workers[resp'.worker_id].db_url}]_vars

\* C27 witness: a bulk write has gone to a worker that already held data
\* while the other worker, empty, healthy and answering, was deactivated
RoutedPastInactive ==
  /\ resp.op = "bulk_write"
  /\ resp.status = 200
  /\ workers[resp.worker_id].size_bytes > resp.total_bytes
  /\ \E v \in DOMAIN workers :
       /\ ~workers[v].is_active /\ workers[v].is_healthy
       /\ workers[v].size_bytes = 0
       /\ reachable[workers[v].db_url]

\* C28: between requests, after any writes, bulk writes, deletes, bulk
\* deletes and rebalances with every datastore answering and no file stored,
\* record_count of each worker is the number of mappings that point to it
\* and size_bytes is the sum of the sizes of the records on its datastore.
CountersConsistent ==
  \A w \in DOMAIN workers :
    /\ workers[w].record_count
         = Cardinality({ m \in mappings : m.worker_id = w })
    /\ workers[w].size_bytes = SumSizes(store[workers[w].db_url])

\* C28 witness: a rebalance has moved a record to a worker that held one,
\* leaving the other worker empty
CountersAfterMove ==
  /\ resp.op = "rebalance"
  /\ resp.status = 200
  /\ resp.moved = 1
  /\ \E w, v \in DOMAIN workers :
       /\ workers[w].record_count = 2
       /\ Cardinality(store[workers[w].db_url]) = 2
       /\ workers[v].record_count = 0
       /\ nextRec > 3

\* a delete and a rebalance of the same record id have both completed
BothDone(a, b) ==
  /\ tasks[a].kind = "delete" /\ tasks[b].kind = "rebalance"
  /\ tasks[a].rid = tasks[b].rid
  /\ tasks[a].pc = "done" /\ tasks[b].pc = "done"

\* every datastore that holds a record with id k belongs to the worker the
\* mapping of k points to
HeldWhereMapped(k) ==
  \A u \in Urls :
    RecordsOf(store, u, k) # {}
    => \E m \in MappingsOf(mappings, k) :
         /\ m.worker_id \in DOMAIN workers
         /\ workers[m.worker_id].db_url = u

\* C29: once a delete and a rebalance of the same record, of which either
\* may have arrived while the other was in progress, have both completed,
\* no datastore holds the record unless its mapping points there, and the
\* counters of every worker match the records and mappings it has.
DeleteRebalanceSettled ==
  \A a, b \in DOMAIN tasks :
    BothDone(a, b) => (HeldWhereMapped(tasks[a].rid) /\ CountersConsistent)

\* C29 witness: a delete that arrived while a rebalance was moving the same
\* record has completed after it
DeleteRebalanceSeen ==
  \E a, b \in DOMAIN tasks :
    /\ BothDone(a, b)
    /\ tasks[b].moved = 1 /\ tasks[b].status = 200
    /\ tasks[a].waited /\ tasks[a].status = 200

\* the master DB and the worker datastores after delete_record(rid)
DeleteOne(st, rid) ==
  LET ms == MappingsOf(st.mappings, rid) IN
  IF ms = {} THEN st ELSE
  LET m    == CHOOSE x \in ms : TRUE
      w    == m.worker_id
      have == w \in DOMAIN st.workers
      url  == st.workers[w].db_url
      ok   == have /\ SessionOk(st.schema, st.pooled, w, url)
      recs == IF ok THEN RecordsOf(st.store, url, rid) ELSE {}
      r    == CHOOSE x \in recs : TRUE
  IN
  [workers  |-> IF recs = {} THEN st.workers
                ELSE update_worker_stats(st.workers, w, 0 - r.size_bytes, -1),
   store    |-> IF recs = {} THEN st.store
                ELSE [st.store EXCEPT ![url] = @ \ {r}],
   mappings |-> st.mappings \ {m},
   pooled   |-> IF have THEN PooledAfter(st.pooled, w) ELSE st.pooled,
   schema   |-> IF have THEN SchemaAfter(st.schema, st.pooled, w, url)
                ELSE st.schema]

RECURSIVE DeleteEach(_, _)
\* delete_record called on the ids one at a time
DeleteEach(st, ids) ==
  IF ids = << >> THEN st
  ELSE DeleteEach(DeleteOne(st, Head(ids)), Tail(ids))

Stores == [workers |-> workers, mappings |-> mappings, store |-> store,
           pooled |-> pooled, schema |-> schema]

\* C30 as stated: bulk_delete leaves the mappings, the records and the
\* counters of every worker as delete_record called on the same ids one at
\* a time leaves them
BulkDeleteIsSequential ==
  [][\A ids \in IdLists(1..MaxRecords) :
       bulk_delete(ids)
       => LET st == DeleteEach(Stores, ids) IN
          /\ workers' = st.workers
          /\ mappings' = st.mappings
          /\ store' = st.store]_vars

\* DeleteOne is what delete_record does
DeleteOneIsDeleteRecord ==
  [][\A r \in 1..MaxRecords :
       delete_record(r, "none")
       => LET st == DeleteOne(Stores, r) IN
          /\ workers' = st.workers
          /\ mappings' = st.mappings
          /\ store' = st.store
          /\ pooled' = st.pooled
          /\ schema' = st.schema]_vars

\* record id k has a mapping to a worker that answers and holds no such row
Lost(k) ==
  \E m \in MappingsOf(mappings, k) :
    /\ m.worker_id \in DOMAIN workers
    /\ Usable(m.worker_id)
    /\ RecordsOf(store, workers[m.worker_id].db_url, k) = {}

\* bulk_delete and delete_record one at a time agree on everything when no
\* id of the request is lost, and on the mappings and the records always
BulkDeleteAgreesUnlessLost ==
  [][\A ids \in IdLists(1..MaxRecords) :
       bulk_delete(ids)
       => LET st == DeleteEach(Stores, ids) IN
          /\ mappings' = st.mappings
          /\ store' = st.store
          /\ (\A i \in DOMAIN ids : ~Lost(ids[i])) => workers' = st.workers]_vars

====
